---- MODULE Spec2Model ----
(***************************************************************************)
(* Model of src/app.py: a Flask file-storage service.  Every route handler *)
(* first calls log_request, which appends an entry to app_log.json (kept   *)
(* inside the upload folder) and rewrites the file with its last 100       *)
(* entries; then the handler does its storage operation and answers.       *)
(*                                                                         *)
(* Text (file names, URL paths) is a sequence of one-character strings, so *)
(* that rsplit, lower and secure_filename are computed character by        *)
(* character.  A file's content is a sequence of tokens: a byte, a JSON     *)
(* bracket, or a JSON object (a log entry as json.dump writes it).         *)
(***************************************************************************)
EXTENDS Integers, Sequences, FiniteSets, TLC

VARIABLES
    fs,        \* the upload folder: name -> [kind, data]
    clock,     \* number of requests received so far (datetime.now())
    req,       \* the request served last
    resp,      \* the response to it
    recorded,  \* history: the entries log_request was called to record
    prev,      \* history: fs, req and resp before the request served last
    pc,        \* SpecConc: where each concurrent log_request call stands
    entry,     \* SpecConc: each call's log_entry
    logs       \* SpecConc: each call's local variable logs

vars == <<fs, clock, req, resp, recorded, prev, pc, entry, logs>>

----------------------------------------------------------------------------
(* Bounds of the model *)

\* requests served in one behaviour of Spec
MaxRequests == 3
\* /health requests served in one behaviour of SpecSeq
MaxHealth == 150
\* sequential /health requests before the concurrent calls of SpecConc
MaxWarm == 100
\* log_request calls each concurrent worker makes in SpecConc
MaxCalls == 1

(* Program constants *)

\* logs[-100:]
LogCap == 100
\* logs[-20:]
ViewLimit == 20
\* PORT = int(os.environ.get('PORT', 8000))
PORT == 8000
APP_NAME == "Flask Docker App"
\* request.remote_addr of the one client of the model
RemoteAddr == "127.0.0.1"

----------------------------------------------------------------------------
(* Text *)

UpperChars == <<"A","B","C","D","E","F","G","H","I","J","K","L","M",
                "N","O","P","Q","R","S","T","U","V","W","X","Y","Z">>
LowerChars == <<"a","b","c","d","e","f","g","h","i","j","k","l","m",
                "n","o","p","q","r","s","t","u","v","w","x","y","z">>
Digits == {"0","1","2","3","4","5","6","7","8","9"}

Range(s) == {s[i] : i \in 1..Len(s)}

\* str.lower() on one character
LowerChar(c) ==
    IF \E i \in 1..26 : UpperChars[i] = c
    THEN LowerChars[CHOOSE i \in 1..26 : UpperChars[i] = c]
    ELSE c

\* str.lower()
Lower(s) == [i \in 1..Len(s) |-> LowerChar(s[i])]

\* filename.rsplit('.', 1)[1]: the text after the last '.'
AfterLastDot(s) ==
    LET d == CHOOSE i \in 1..Len(s) :
                 s[i] = "." /\ \A j \in (i+1)..Len(s) : s[j] # "."
    IN  SubSeq(s, d + 1, Len(s))

ExtTxt  == <<"t","x","t">>
ExtPdf  == <<"p","d","f">>
ExtPng  == <<"p","n","g">>
ExtJpg  == <<"j","p","g">>
ExtJpeg == <<"j","p","e","g">>
ExtGif  == <<"g","i","f">>
ExtJson == <<"j","s","o","n">>

ALLOWED_EXTENSIONS == {ExtTxt, ExtPdf, ExtPng, ExtJpg, ExtJpeg, ExtGif, ExtJson}

allowed_file(filename) ==
    /\ "." \in Range(filename)
    /\ Lower(AfterLastDot(filename)) \in ALLOWED_EXTENSIONS

(* werkzeug.utils.secure_filename, on ASCII text:
     for sep in os.sep, os.path.altsep: filename = filename.replace(sep, " ")
     filename = re.sub(r"[^A-Za-z0-9_.-]", "", "_".join(filename.split()))
     filename = filename.strip("._")                                       *)
ReplaceSep(s) == [i \in 1..Len(s) |-> IF s[i] = "/" THEN " " ELSE s[i]]

\* "_".join(s.split()): runs of blanks between two words become one "_",
\* leading and trailing blanks go
RECURSIVE JoinWordsFrom(_, _)
JoinWordsFrom(s, i) ==
    IF i > Len(s) THEN <<>>
    ELSE IF s[i] # " " THEN <<s[i]>> \o JoinWordsFrom(s, i + 1)
    ELSE IF /\ i > 1
            /\ s[i-1] # " "
            /\ \E j \in (i+1)..Len(s) : s[j] # " "
         THEN <<"_">> \o JoinWordsFrom(s, i + 1)
         ELSE JoinWordsFrom(s, i + 1)

JoinWords(s) == JoinWordsFrom(s, 1)

IsSafeChar(c) ==
    c \in Range(UpperChars) \cup Range(LowerChars) \cup Digits \cup {"_", ".", "-"}

AsciiStrip(s) == SelectSeq(s, IsSafeChar)

\* str.strip("._")
RECURSIVE StripDotsUnderscores(_)
StripDotsUnderscores(s) ==
    IF s = <<>> THEN s
    ELSE IF Head(s) \in {".", "_"} THEN StripDotsUnderscores(Tail(s))
    ELSE IF s[Len(s)] \in {".", "_"}
         THEN StripDotsUnderscores(SubSeq(s, 1, Len(s) - 1))
         ELSE s

secure_filename(filename) ==
    StripDotsUnderscores(AsciiStrip(JoinWords(ReplaceSep(filename))))

----------------------------------------------------------------------------
(* File names and URL paths of the model *)

NotesTxt    == <<"n","o","t","e","s",".","t","x","t">>
NotesUpper  == <<"N","O","T","E","S",".","T","X","T">>
MissingTxt  == <<"m","i","s","s","i","n","g",".","t","x","t">>
PasswdTxt   == <<".",".","/",".",".","/","e","t","c","/",
                 "p","a","s","s","w","d",".","t","x","t">>
AppLogJson  == <<"a","p","p","_","l","o","g",".","j","s","o","n">>
ToolExe     == <<"t","o","o","l",".","e","x","e">>
Readme      == <<"R","E","A","D","M","E">>
SubDir      == <<"s","u","b">>

\* LOG_FILE = os.path.join(UPLOAD_FOLDER, 'app_log.json'): a name of the
\* upload folder
LOG_FILE == AppLogJson

PathHome     == <<"/">>
PathHealth   == <<"/","h","e","a","l","t","h">>
PathUpload   == <<"/","u","p","l","o","a","d">>
PathFiles    == <<"/","f","i","l","e","s">>
PathLogs     == <<"/","l","o","g","s">>
PathEnv      == <<"/","e","n","v">>
PathDownload == <<"/","d","o","w","n","l","o","a","d","/">>
PathNope     == <<"/","n","o","p","e">>

----------------------------------------------------------------------------
(* File contents and JSON *)

Byte(n)     == [tok |-> "byte", v |-> n]
\* the JSON array brackets [ and ]
LBracket    == [tok |-> "array_open"]
RBracket    == [tok |-> "array_close"]
Object(o)   == [tok |-> "object", v |-> o]

\* ten bytes that are not JSON
TenBytes     == [i \in 1..10 |-> Byte(i)]
\* the text []
EmptyArray   == <<LBracket, RBracket>>
\* the text {"a": 1}: JSON, but not an array
OneObject    == <<Object([a |-> 1])>>

\* json.dump(list, f): an array of objects
JsonDump(list) ==
    <<LBracket>> \o [i \in 1..Len(list) |-> Object(list[i])] \o <<RBracket>>

\* json.load(f): [ok] is FALSE when json.load raises; [list] tells a list
\* from a dict
JsonLoad(data) ==
    IF /\ Len(data) >= 2
       /\ data[1] = LBracket
       /\ data[Len(data)] = RBracket
       /\ \A i \in 2..(Len(data) - 1) : data[i].tok = "object"
    THEN [ok |-> TRUE, list |-> TRUE,
          value |-> [i \in 1..(Len(data) - 2) |-> data[i + 1].v]]
    ELSE IF Len(data) = 1 /\ data[1].tok = "object"
    THEN [ok |-> TRUE, list |-> FALSE, value |-> <<>>]
    ELSE [ok |-> FALSE, list |-> FALSE, value |-> <<>>]

\* s[-n:]
LastN(s, n) == IF Len(s) <= n THEN s ELSE SubSeq(s, Len(s) - n + 1, Len(s))

----------------------------------------------------------------------------
(* The upload folder *)

File(data) == [kind |-> "file", data |-> data]
Dir        == [kind |-> "dir", data |-> <<>>]

\* open(path, 'w').write(data), file.save(path)
WriteFile(f, name, data) ==
    [n \in (DOMAIN f) \cup {name} |-> IF n = name THEN File(data) ELSE f[n]]

\* os.path.exists, os.path.isfile
Exists(f, name) == name \in DOMAIN f
IsFile(f, name) == name \in DOMAIN f /\ f[name].kind = "file"

----------------------------------------------------------------------------
(* log_request *)

LogEntry(now, endpoint, method, ip) ==
    [timestamp |-> now, endpoint |-> endpoint, method |-> method,
     ip |-> ip, app_name |-> APP_NAME, port |-> PORT]

\* a slip: the slice forgotten, json.dump(logs, f)
TruncateNothing(list) == list

\* a slip: logs[:100], the first 100 entries
TruncateKeepsOldest(list) == SubSeq(list, 1, IF Len(list) < LogCap THEN Len(list) ELSE LogCap)

\* logs[-100:]
Truncate(list) == LastN(list, LogCap)

(* fault: an open() of the log file raises (the file is unreadable or
   unwritable).  Every exception of the body is caught: the folder is then
   left as it was.  json.load raising, and logs.append on a dict, are two
   such exceptions.                                                        *)
log_request(f, endpoint, method, ip, now, fault) ==
    LET log_entry == LogEntry(now, endpoint, method, ip)
        loaded    == IF Exists(f, LOG_FILE)
                     THEN JsonLoad(f[LOG_FILE].data)
                     ELSE [ok |-> TRUE, list |-> TRUE, value |-> <<>>]
    IN  IF fault THEN f
        ELSE IF ~loaded.ok THEN f
        ELSE IF ~loaded.list THEN f
        ELSE WriteFile(f, LOG_FILE,
                       JsonDump(Truncate(Append(loaded.value, log_entry))))

----------------------------------------------------------------------------
(* The route handlers: the folder after the request, and the response *)

Response(status, body) == [status |-> status, body |-> body]
Outcome(f, r) == [fs |-> f, resp |-> r]

home(f, now, fault) ==
    LET f1 == log_request(f, PathHome, "GET", RemoteAddr, now, fault)
    IN  Outcome(f1, Response(200, [app_name |-> APP_NAME, port |-> PORT,
                                   status |-> "running"]))

health_check(f, now, fault) ==
    LET f1 == log_request(f, PathHealth, "GET", RemoteAddr, now, fault)
    IN  Outcome(f1, Response(200, [status |-> "healthy",
                                   storage_accessible |-> TRUE,
                                   file_count |-> Cardinality(DOMAIN f1)]))

(* part: "none" when the form has no field 'file', "oversize" when the body
   exceeds MAX_CONTENT_LENGTH (request.files then raises 413), else "file" *)
upload_file(f, part, rawname, content, now, fault) ==
    LET f1 == log_request(f, PathUpload, "POST", RemoteAddr, now, fault)
        filename == secure_filename(rawname)
    IN  IF part = "oversize"
        THEN Outcome(f1, Response(413, [error |-> "Request Entity Too Large"]))
        ELSE IF part = "none"
        THEN Outcome(f1, Response(400, [error |-> "No file part"]))
        ELSE IF rawname = <<>>
        THEN Outcome(f1, Response(400, [error |-> "No selected file"]))
        ELSE IF allowed_file(rawname)
        THEN Outcome(WriteFile(f1, filename, content),
                     Response(200, [message |-> "File uploaded successfully",
                                    filename |-> filename,
                                    size |-> Len(content)]))
        ELSE Outcome(f1, Response(400, [error |-> "File type not allowed"]))

\* the listing: os.listdir gives no order, so a set
Listing(f) == {[name |-> n, size |-> Len(f[n].data)] : n \in {m \in DOMAIN f : IsFile(f, m)}}

list_files(f, now, fault) ==
    LET f1 == log_request(f, PathFiles, "GET", RemoteAddr, now, fault)
    IN  Outcome(f1, Response(200, [count |-> Cardinality(Listing(f1)),
                                   files |-> Listing(f1)]))

download_file(f, filename, now, fault) ==
    LET f1 == log_request(f, PathDownload \o filename, "GET", RemoteAddr, now, fault)
    IN  IF ~Exists(f1, filename)
        THEN Outcome(f1, Response(404, [error |-> "File not found"]))
        ELSE IF ~IsFile(f1, filename)
        THEN Outcome(f1, Response(400, [error |-> "Not a file"]))
        ELSE Outcome(f1, Response(200, [bytes |-> f1[filename].data]))

\* a slip: logs[:20], the first 20 entries
RecentOldest(list) == SubSeq(list, 1, IF Len(list) < ViewLimit THEN Len(list) ELSE ViewLimit)

\* logs[-20:]
Recent(list) == LastN(list, ViewLimit)

view_logs(f, now, fault) ==
    LET f1 == log_request(f, PathLogs, "GET", RemoteAddr, now, fault)
        loaded == JsonLoad(f1[LOG_FILE].data)
    IN  IF ~Exists(f1, LOG_FILE)
        THEN Outcome(f1, Response(200, [message |-> "No logs yet", logs |-> <<>>]))
        ELSE IF loaded.ok /\ loaded.list
        THEN Outcome(f1, Response(200, [total_entries |-> Len(loaded.value),
                                        logs |-> Recent(loaded.value)]))
        ELSE Outcome(f1, Response(500, [error |-> "json.load or slice failed"]))

show_env(f, now, fault) ==
    LET f1 == log_request(f, PathEnv, "GET", RemoteAddr, now, fault)
    IN  Outcome(f1, Response(200, [PORT |-> PORT, APP_NAME |-> APP_NAME]))

\* @app.errorhandler(404): no log_request
not_found(f, path) ==
    Outcome(f, Response(404, [error |-> "Endpoint not found", path |-> path]))

\* a route called with a method it does not list: 405, no handler runs
method_not_allowed(f) ==
    Outcome(f, Response(405, [error |-> "Method Not Allowed"]))

----------------------------------------------------------------------------
(* Requests of the model *)

RawNames  == {NotesTxt, NotesUpper, PasswdTxt, AppLogJson, ToolExe, Readme, <<>>}
Contents  == {TenBytes, EmptyArray, OneObject}
Downloads == {NotesTxt, MissingTxt, AppLogJson, SubDir}

Request(route, part, filename, content, fault) ==
    [route |-> route, part |-> part, filename |-> filename,
     content |-> content, fault |-> fault]

NoResponse == [status |-> 0, body |-> [message |-> "no request yet"]]

NoRequest == Request("none", "none", <<>>, <<>>, FALSE)

EmptyFolder == [n \in {} |-> Dir]

Workers == {1, 2}
WorkerAddr(p) == IF p = 1 THEN "10.0.0.1" ELSE "10.0.0.2"
NoEntry == LogEntry(0, <<>>, "", "")

(* os.makedirs(UPLOAD_FOLDER, exist_ok=True): the folder exists; it holds
   nothing, or a subdirectory somebody made by hand.                       *)
Init ==
    /\ fs \in {EmptyFolder, [n \in {SubDir} |-> Dir]}
    /\ clock = 0
    /\ req = NoRequest
    /\ resp = NoResponse
    /\ recorded = <<>>
    /\ prev = [fs |-> fs, req |-> NoRequest, resp |-> NoResponse]
    /\ pc = [p \in Workers |-> "idle"]
    /\ entry = [p \in Workers |-> NoEntry]
    /\ logs = [p \in Workers |-> <<>>]

\* one request served: o is the handler's outcome, called the log_request
\* arguments when the handler calls it
Served(o, r) ==
    /\ fs' = o.fs
    /\ resp' = o.resp
    /\ req' = r
    /\ clock' = clock + 1
    /\ prev' = [fs |-> fs, req |-> req, resp |-> resp]
    /\ UNCHANGED <<pc, entry, logs>>

Logged(endpoint, method) ==
    recorded' = Append(recorded, LogEntry(clock + 1, endpoint, method, RemoteAddr))

Home(fault) ==
    /\ Served(home(fs, clock + 1, fault), Request("home", "none", <<>>, <<>>, fault))
    /\ Logged(PathHome, "GET")

HealthCheck(fault) ==
    /\ Served(health_check(fs, clock + 1, fault),
              Request("health", "none", <<>>, <<>>, fault))
    /\ Logged(PathHealth, "GET")

UploadFile(part, rawname, content, fault) ==
    /\ Served(upload_file(fs, part, rawname, content, clock + 1, fault),
              Request("upload", part, rawname, content, fault))
    /\ Logged(PathUpload, "POST")

ListFiles(fault) ==
    /\ Served(list_files(fs, clock + 1, fault),
              Request("files", "none", <<>>, <<>>, fault))
    /\ Logged(PathFiles, "GET")

DownloadFile(filename, fault) ==
    /\ Served(download_file(fs, filename, clock + 1, fault),
              Request("download", "none", filename, <<>>, fault))
    /\ Logged(PathDownload \o filename, "GET")

ViewLogs(fault) ==
    /\ Served(view_logs(fs, clock + 1, fault),
              Request("logs", "none", <<>>, <<>>, fault))
    /\ Logged(PathLogs, "GET")

ShowEnv(fault) ==
    /\ Served(show_env(fs, clock + 1, fault),
              Request("env", "none", <<>>, <<>>, fault))
    /\ Logged(PathEnv, "GET")

NotFound ==
    /\ Served(not_found(fs, PathNope), Request("not_found", "none", PathNope, <<>>, FALSE))
    /\ UNCHANGED recorded

MethodNotAllowed ==
    /\ Served(method_not_allowed(fs),
              Request("method_not_allowed", "none", PathUpload, <<>>, FALSE))
    /\ UNCHANGED recorded

MayServe == clock < MaxRequests

Next ==
    \/ \E fault \in BOOLEAN : MayServe /\ Home(fault)
    \/ \E fault \in BOOLEAN : MayServe /\ HealthCheck(fault)
    \/ \E fault \in BOOLEAN, rawname \in RawNames, content \in Contents :
           MayServe /\ UploadFile("file", rawname, content, fault)
    \/ \E fault \in BOOLEAN, part \in {"none", "oversize"} :
           MayServe /\ UploadFile(part, <<>>, <<>>, fault)
    \/ \E fault \in BOOLEAN : MayServe /\ ListFiles(fault)
    \/ \E fault \in BOOLEAN, filename \in Downloads :
           MayServe /\ DownloadFile(filename, fault)
    \/ \E fault \in BOOLEAN : MayServe /\ ViewLogs(fault)
    \/ \E fault \in BOOLEAN : MayServe /\ ShowEnv(fault)
    \/ MayServe /\ NotFound
    \/ MayServe /\ MethodNotAllowed

Spec == Init /\ [][Next]_vars

----------------------------------------------------------------------------
(* What the claims speak of *)

LoggedRoutes == {"home", "health", "upload", "files", "download", "logs", "env"}

\* the log file parses as a JSON array
LogReadable(f) ==
    /\ Exists(f, LOG_FILE)
    /\ JsonLoad(f[LOG_FILE].data).ok
    /\ JsonLoad(f[LOG_FILE].data).list

\* the entries the log file holds (none when it is absent or unreadable)
LogEntries(f) == IF LogReadable(f) THEN JsonLoad(f[LOG_FILE].data).value ELSE <<>>

IsLogEntry(o) == DOMAIN o = DOMAIN NoEntry

----------------------------------------------------------------------------
(* Claims checked under Spec *)

\* C1: in every reachable state the log file, if present, holds a JSON array
\* of at most 100 LogEntry objects, oldest first.
C1_LogFileIsBoundedArray ==
    Exists(fs, LOG_FILE) =>
        /\ LogReadable(fs)
        /\ Len(LogEntries(fs)) <= LogCap
        /\ \A i \in 1..Len(LogEntries(fs)) : IsLogEntry(LogEntries(fs)[i])
        /\ \A i, j \in 1..Len(LogEntries(fs)) :
               i < j => LogEntries(fs)[i].timestamp < LogEntries(fs)[j].timestamp

\* the status of an outcome, and its body when the status is 200
StatusAndBody(o) == IF o.resp.status = 200 THEN <<200, o.resp.body>> ELSE <<o.resp.status>>

\* the file an upload's outcome left under the sanitized name
Stored(o, rawname) ==
    IF o.resp.status = 200 THEN <<o.fs[secure_filename(rawname)]>> ELSE <<>>

\* the outcome the handler of request r gives in folder f at time now
\* when log_request's open() fails or not as fault says
Dispatch(f, r, now, fault) ==
    CASE r.route = "home"     -> home(f, now, fault)
      [] r.route = "health"   -> health_check(f, now, fault)
      [] r.route = "upload"   -> upload_file(f, r.part, r.filename, r.content, now, fault)
      [] r.route = "files"    -> list_files(f, now, fault)
      [] r.route = "download" -> download_file(f, r.filename, now, fault)
      [] r.route = "logs"     -> view_logs(f, now, fault)
      [] r.route = "env"      -> show_env(f, now, fault)

\* the primary effect of request r with outcome o: what the handler
\* stored, listed or sent
Effect(r, o) ==
    CASE r.route = "upload" -> Stored(o, r.filename)
      [] r.route \in {"files", "download"} -> StatusAndBody(o)
      [] OTHER -> <<>>

\* C3: for every request, the HTTP status and the handler's storage effect
\* (the file /upload writes, the listing of /files, the bytes of /download)
\* are the same whether log_request's write succeeded or failed.
C3_LoggingFailureChangesNothing ==
    req.route \in LoggedRoutes =>
        LET other == Dispatch(prev.fs, req, clock, ~req.fault)
            this  == Outcome(fs, resp)
        IN  /\ this.resp.status = other.resp.status
            /\ Effect(req, this) = Effect(req, other)

\* C4: an upload under a name with an allowed extension succeeds, and the
\* download of the sanitized name that follows it returns 200 and exactly
\* the uploaded bytes.
C4_UploadDownloadRoundTrip ==
    /\ (/\ req.route = "upload"
        /\ req.part = "file"
        /\ req.filename # <<>>
        /\ allowed_file(req.filename))
       => resp.status = 200
    /\ (/\ prev.req.route = "upload"
        /\ prev.resp.status = 200
        /\ req.route = "download"
        /\ req.filename = prev.resp.body.filename)
       => (resp.status = 200 /\ resp.body.bytes = prev.req.content)

\* C5: an upload under a name with no '.' or with an extension that is not
\* allowed answers 400 and leaves the storage directory, names and contents,
\* as it was.
C5_RejectedUploadWritesNothing ==
    (/\ req.route = "upload"
     /\ req.part = "file"
     /\ req.filename # <<>>
     /\ ~allowed_file(req.filename))
    => (resp.status = 400 /\ fs = prev.fs)

\* the scenario's one upload into an empty directory was the first request
\* and the request served last is the second, its logging succeeding
AfterNotesUpload ==
    /\ clock = 2
    /\ prev.req = Request("upload", "file", NotesTxt, TenBytes, FALSE)
    /\ prev.resp.status = 200
    /\ ~Exists(fs, SubDir)
    /\ ~req.fault

\* C7: after notes.txt (10 bytes) is uploaded into an empty directory,
\* /files answers count 1 with the one entry notes.txt of size 10,
\* /download/notes.txt returns the 10 bytes, /download/missing.txt is 404.
C7_NotesScenario ==
    AfterNotesUpload =>
        /\ req.route = "files" =>
               /\ resp.body.count = 1
               /\ resp.body.files = {[name |-> NotesTxt, size |-> 10]}
        /\ (req.route = "download" /\ req.filename = NotesTxt) =>
               (resp.status = 200 /\ resp.body.bytes = TenBytes)
        /\ (req.route = "download" /\ req.filename = MissingTxt) =>
               resp.status = 404

\* C8: a log_request call that finds the log file unparsable takes it for
\* an empty array: afterwards the file is a JSON array whose last element
\* is the entry of this call.  (Checked on the handlers that write nothing
\* else, and with no open() failing.)
C8_UnparsableLogIsReset ==
    (/\ Exists(prev.fs, LOG_FILE)
     /\ ~JsonLoad(prev.fs[LOG_FILE].data).ok
     /\ req.route \in LoggedRoutes \ {"upload"}
     /\ ~req.fault)
    => /\ LogReadable(fs)
       /\ LogEntries(fs) # <<>>
       /\ LogEntries(fs)[Len(LogEntries(fs))] = recorded[Len(recorded)]

\* an upload that file.save()s over the log file itself
OverwritesLog(r) ==
    r.route = "upload" /\ r.part = "file" /\ secure_filename(r.filename) = LOG_FILE

\* C9: every request, whatever its path, method and outcome, causes exactly
\* one log_request call; with logging succeeding, a request to a log that
\* holds fewer than 100 entries adds exactly one entry (so k requests add
\* k).  (The uploads that overwrite the log file, C1's case, are left out
\* of the second part.)
C9_EveryRequestIsLoggedOnce ==
    /\ Len(recorded) = clock
    /\ (/\ clock > 0
        /\ ~req.fault
        /\ ~OverwritesLog(req)
        /\ (LogReadable(prev.fs) \/ ~Exists(prev.fs, LOG_FILE))
        /\ Len(LogEntries(prev.fs)) < LogCap)
       => Len(LogEntries(fs)) = Len(LogEntries(prev.fs)) + 1

----------------------------------------------------------------------------
(* SpecSeq: sequential /health requests, every log write succeeding, then
   one /logs request *)

SeqHealth ==
    /\ req.route # "logs"
    /\ clock < MaxHealth
    /\ HealthCheck(FALSE)

SeqLogs ==
    /\ req.route # "logs"
    /\ ViewLogs(FALSE)

NextSeq == SeqHealth \/ SeqLogs

SpecSeq == Init /\ [][NextSeq]_vars

\* C2: starting with no log file, after N sequential log_request calls the
\* log file holds exactly the last min(N, 100) recorded entries, in the
\* order they were recorded.
C2_LogHoldsLastEntries ==
    LET n == Len(recorded)
        k == IF n < 100 THEN n ELSE 100
    IN  /\ n = 0 => ~Exists(fs, LOG_FILE)
        /\ n > 0 => /\ LogReadable(fs)
                    /\ LogEntries(fs) = SubSeq(recorded, n - k + 1, n)

\* 150 calls were made: the log holds the last 100, the oldest 50 are gone
C2_Witness ==
    /\ Len(recorded) = 150
    /\ Len(LogEntries(fs)) = 100
    /\ LogEntries(fs)[1].timestamp = 51
    /\ LogEntries(fs)[100].timestamp = 150

\* n /health requests, then the /logs request that was served last
HealthThenLogs(n) ==
    /\ req.route = "logs"
    /\ clock = n + 1
    /\ \A i \in 1..n : recorded[i].endpoint = PathHealth

\* C6 as the spec states it: after 150 /health requests and one /logs
\* request, total_entries <= 100 and logs is exactly the 20 most recent
\* /health requests, in arrival order.
C6_LogsShowsLast20Health ==
    HealthThenLogs(150) =>
        /\ resp.body.total_entries <= 100
        /\ resp.body.logs =
               [i \in 1..20 |-> LogEntry(130 + i, PathHealth, "GET", RemoteAddr)]

\* C6 amended: after n >= 19 /health requests (150 among them) and one
\* /logs request, total_entries is min(n + 1, 100), and logs is the 19 most
\* recent /health requests followed by the entry of the /logs request
\* itself, in arrival order.
C6_LogsShowsLast19HealthAndItself ==
    \A n \in 19..clock :
        HealthThenLogs(n) =>
            /\ resp.status = 200
            /\ resp.body.total_entries = (IF n + 1 < 100 THEN n + 1 ELSE 100)
            /\ resp.body.logs =
                   [i \in 1..19 |-> LogEntry(n - 19 + i, PathHealth, "GET", RemoteAddr)]
                   \o <<LogEntry(n + 1, PathLogs, "GET", RemoteAddr)>>

C6_Witness ==
    /\ HealthThenLogs(150)
    /\ resp.body.total_entries = 100
    /\ Len(resp.body.logs) = 20
    /\ resp.body.logs[20].endpoint = PathLogs

----------------------------------------------------------------------------
(* SpecConc: after some sequential /health requests, two workers call
   log_request concurrently.  The call takes no lock, so it is cut at its
   file operations: the read (lines 46-53), the open for writing, which
   truncates the file (line 56), and the dump and close (line 57).         *)

\* the log_request calls worker p has begun
Calls(p) == Cardinality({i \in 1..Len(recorded) : recorded[i].ip = WorkerAddr(p)})

\* a write of text at offset 0 of a file that holds old: what another
\* writer put beyond the end of text stays
WriteAtStart(old, text) ==
    IF Len(old) > Len(text)
    THEN text \o SubSeq(old, Len(text) + 1, Len(old))
    ELSE text

Warm ==
    /\ \A p \in Workers : Calls(p) = 0
    /\ clock < MaxWarm
    /\ HealthCheck(FALSE)

\* log_entry = {...}
Begin(p) ==
    /\ pc[p] \in {"idle", "returned", "failed"}
    /\ Calls(p) < MaxCalls
    /\ entry' = [entry EXCEPT ![p] = LogEntry(clock + 1, PathHealth, "GET", WorkerAddr(p))]
    /\ recorded' = Append(recorded, LogEntry(clock + 1, PathHealth, "GET", WorkerAddr(p)))
    /\ clock' = clock + 1
    /\ pc' = [pc EXCEPT ![p] = "read"]
    /\ UNCHANGED <<fs, req, resp, prev, logs>>

\* if os.path.exists(LOG_FILE): logs = json.load(f) else: logs = []
\* logs.append(log_entry); an exception ends the call
ReadLogs(p) ==
    /\ pc[p] = "read"
    /\ LET loaded == IF Exists(fs, LOG_FILE)
                     THEN JsonLoad(fs[LOG_FILE].data)
                     ELSE [ok |-> TRUE, list |-> TRUE, value |-> <<>>]
       IN  IF loaded.ok /\ loaded.list
           THEN /\ logs' = [logs EXCEPT ![p] = Append(loaded.value, entry[p])]
                /\ pc' = [pc EXCEPT ![p] = "open"]
           ELSE /\ pc' = [pc EXCEPT ![p] = "failed"]
                /\ UNCHANGED logs
    /\ UNCHANGED <<fs, clock, req, resp, recorded, prev, entry>>

\* open(LOG_FILE, 'w')
OpenForWrite(p) ==
    /\ pc[p] = "open"
    /\ fs' = WriteFile(fs, LOG_FILE, <<>>)
    /\ pc' = [pc EXCEPT ![p] = "dump"]
    /\ UNCHANGED <<clock, req, resp, recorded, prev, entry, logs>>

\* json.dump(logs[-100:], f, indent=2), and the close that flushes it
DumpAndClose(p) ==
    /\ pc[p] = "dump"
    /\ fs' = WriteFile(fs, LOG_FILE,
                       WriteAtStart(fs[LOG_FILE].data, JsonDump(Truncate(logs[p]))))
    /\ pc' = [pc EXCEPT ![p] = "returned"]
    /\ UNCHANGED <<clock, req, resp, recorded, prev, entry, logs>>

NextConc ==
    \/ Warm
    \/ \E p \in Workers : Begin(p)
    \/ \E p \in Workers : ReadLogs(p)
    \/ \E p \in Workers : OpenForWrite(p)
    \/ \E p \in Workers : DumpAndClose(p)

SpecConc == Init /\ [][NextConc]_vars

\* the JSON objects the log file holds, parsable or not
ObjectCount(f) ==
    IF Exists(f, LOG_FILE)
    THEN Cardinality({i \in 1..Len(f[LOG_FILE].data) : f[LOG_FILE].data[i].tok = "object"})
    ELSE 0

\* C10: two concurrent log_request calls can both read the same array and
\* lose an update (C10_LostUpdate is such a state); under every
\* interleaving the log file never holds more than 100 entries.
C10_NeverMoreThanCap == ObjectCount(fs) <= 100

\* both calls wrote and returned, and the log file, a JSON array, holds the
\* entry of only one of them
C10_LostUpdate ==
    /\ \A p \in Workers : pc[p] = "returned" /\ Calls(p) = 1
    /\ LogReadable(fs)
    /\ Cardinality({p \in Workers : entry[p] \in Range(LogEntries(fs))}) = 1

====
